---- MODULE Spec2Model ----
(***************************************************************************)
(* Model of the stream aggregation pipeline of multi-torr (index.js part   *)
(* of src/src/const.js): the /stream/:type/:id.json route handler, which   *)
(* calls getStreams (fan-out to every source, join, deduplicate, episode   *)
(* filter), formats, sorts and caps the result.                            *)
(*                                                                         *)
(* Text is a sequence of one-character strings, so that startsWith,        *)
(* toLowerCase and the regular expressions are computed on characters.     *)
(* One action is one event-loop task together with the promise             *)
(* continuations (microtasks) it triggers.                                 *)
(***************************************************************************)
EXTENDS Integers, Sequences, FiniteSets, TLC

VARIABLES
    request,        \* [type, id, season, episode]: the route's parameters after split(':')
    responses,      \* per source: what the upstream does for this request (environment)
    phase,          \* "idle" | "waiting" (at await Promise.all) | "done" (res.json sent)
    pc,             \* per source task: "idle" | "fetching" | "reading" | "settled"
    timerFired,     \* per source: the setTimeout callback of fetchWithTimeout ran
    taskResult,     \* per source: the array the task's async function returned
    order,          \* sources in the order their tasks settled
    query,          \* the query string sent to the sources
    unique,         \* the reduce accumulator after deduplication
    streams,        \* value returned by getStreams
    caught,         \* what the catch block of getStreams caught ("none" if nothing)
    res,            \* the HTTP response: [status, streams]
    run,            \* number of the request being served
    prevTaskResult, \* taskResult of the previous request
    prevStreams,    \* res.streams of the previous request
    prevOrder,      \* order of the previous request
    title,          \* input of the episode filter callback (filter specification)
    kept            \* its result: "unset" | "yes" | "no"

vars == <<request, responses, phase, pc, timerFired, taskResult, order, query,
          unique, streams, caught, res, run, prevTaskResult, prevStreams, prevOrder,
          title, kept>>

(***************************************************************************)
(* Bounds of the model.                                                    *)
(***************************************************************************)
NumSources == 2     \* sources modelled (the table of the code has six)
MaxParts == 4       \* parts concatenated into a title of the filter specification
MaxRank == 3        \* candidates in the small lists of the route specification
MaxOver == 2        \* candidates above the cap in the long lists

Sources == 1 .. NumSources

(***************************************************************************)
(* Text helpers.                                                           *)
(***************************************************************************)
Digits == {"0", "1", "2", "3", "4", "5", "6", "7", "8", "9"}

IsDigit(c) == c \in Digits

DigitVal(c) ==
    CASE c = "0" -> 0 [] c = "1" -> 1 [] c = "2" -> 2 [] c = "3" -> 3 [] c = "4" -> 4
      [] c = "5" -> 5 [] c = "6" -> 6 [] c = "7" -> 7 [] c = "8" -> 8 [] OTHER -> 9

\* String.prototype.toLowerCase / toUpperCase on one character.
LowerChar(c) ==
    CASE c = "A" -> "a" [] c = "B" -> "b" [] c = "C" -> "c" [] c = "D" -> "d"
      [] c = "E" -> "e" [] c = "F" -> "f" [] c = "S" -> "s" [] c = "P" -> "p"
      [] c = "M" -> "m" [] c = "G" -> "g" [] c = "U" -> "u" [] OTHER -> c

UpperChar(c) ==
    CASE c = "a" -> "A" [] c = "b" -> "B" [] c = "c" -> "C" [] c = "d" -> "D"
      [] c = "e" -> "E" [] c = "f" -> "F" [] c = "s" -> "S" [] c = "p" -> "P"
      [] c = "m" -> "M" [] c = "g" -> "G" [] c = "k" -> "K" [] c = "n" -> "N"
      [] c = "o" -> "O" [] c = "w" -> "W" [] c = "u" -> "U" [] OTHER -> c

toLowerCase(s) == [i \in 1 .. Len(s) |-> LowerChar(s[i])]

toUpperCase(s) == [i \in 1 .. Len(s) |-> UpperChar(s[i])]

startsWith(s, prefix) ==
    /\ Len(s) >= Len(prefix)
    /\ SubSeq(s, 1, Len(prefix)) = prefix

includes(s, sub) ==
    \E i \in 1 .. (Len(s) - Len(sub) + 1) : SubSeq(s, i, i + Len(sub) - 1) = sub

\* parseInt of a text of decimal digits.
RECURSIVE parseInt(_)
parseInt(s) ==
    IF s = <<>> THEN 0
    ELSE 10 * parseInt(SubSeq(s, 1, Len(s) - 1)) + DigitVal(s[Len(s)])

\* Length of the run of characters of set S that starts at position i of s.
RECURSIVE RunLen(_, _, _)
RunLen(s, i, S) ==
    IF i > Len(s) \/ s[i] \notin S THEN 0 ELSE 1 + RunLen(s, i + 1, S)

Min(a, b) == IF a <= b THEN a ELSE b

RECURSIVE Flat(_)
Flat(ss) == IF ss = <<>> THEN <<>> ELSE Head(ss) \o Flat(Tail(ss))

(***************************************************************************)
(* getIdType                                                               *)
(***************************************************************************)
getIdType(id) ==
    IF startsWith(id, <<"t", "t">>) THEN "imdb"
    ELSE IF startsWith(id, <<"t", "m", "d", "b", "-">>) THEN "tmdb"
    ELSE IF Len(id) >= 1 /\ \A i \in 1 .. Len(id) : IsDigit(id[i]) THEN "tmdb"
    ELSE "null"

\* id.replace('tmdb-', '') for an id that starts with 'tmdb-'.
actualId(id) ==
    IF startsWith(id, <<"t", "m", "d", "b", "-">>) THEN SubSeq(id, 6, Len(id)) ELSE id

(***************************************************************************)
(* Values of the duck-typed fields of a provider result.  A field is       *)
(* absent, a string, or (filename only) a value that is not a string.      *)
(* The title is held as its first line with the first quality token and    *)
(* the first size token it contains (empty when it contains none); the     *)
(* magnet link is held as the text that follows "btih:".                   *)
(***************************************************************************)
None == [t |-> "none", v |-> <<>>]

Str(x) == [t |-> "str", v |-> x]

\* A number where a string is expected; v is what String(value) gives.
NotAString == [t |-> "num", v |-> <<"4", "2">>]

NoTitle == [t |-> "none", v |-> <<>>, q |-> <<>>, sz |-> <<>>]

Title(line, q, sz) == [t |-> "str", v |-> line, q |-> q, sz |-> sz]

\* JavaScript truthiness of a field (a non-zero number is truthy).
Truthy(f) == f.t = "num" \/ (f.t = "str" /\ f.v # <<>>)

TitleTruthy(f) == f.t = "str" /\ (f.v # <<>> \/ f.q # <<>> \/ f.sz # <<>>)

Unknown == <<"U", "n", "k", "n", "o", "w", "n">>

(***************************************************************************)
(* Deduplication: the reduce of getStreams.                                *)
(***************************************************************************)
HexChars == {"a", "b", "c", "d", "e", "f", "A", "B", "C", "D", "E", "F"} \cup Digits

\* stream.magnetLink.match(/btih:([a-f0-9]+)/i)?.[1]?.toLowerCase(); <<>> for undefined.
extractHash(link) == toLowerCase(SubSeq(link, 1, RunLen(link, 1, HexChars)))

\* The object pushed for a stream whose hash is new.
candidate(stream, hash) ==
    LET filename == IF Truthy(stream.filename) THEN stream.filename
                    ELSE IF stream.title.t = "str" /\ stream.title.v # <<>>
                         THEN Str(stream.title.v)
                    ELSE Str(Unknown)
    IN [hash |-> hash,
        magnetLink |-> stream.magnetLink.v,
        filename |-> filename,
        websiteTitle |-> IF TitleTruthy(stream.title) THEN Str(stream.title.v) ELSE filename,
        quality |-> IF Truthy(stream.quality) THEN stream.quality.v ELSE stream.title.q,
        size |-> IF Truthy(stream.size) THEN stream.size.v ELSE stream.title.sz,
        source |-> stream.source]

\* Faulty variant: a later duplicate replaces the candidate kept for its hash.
dedupStepLastWins(acc, stream) ==
    IF ~Truthy(stream.magnetLink) THEN acc
    ELSE LET hash == extractHash(stream.magnetLink.v)
             rest == SelectSeq(acc.unique, LAMBDA c : c.hash # hash)
         IN IF hash = <<>> THEN acc
            ELSE [unique |-> Append(rest, candidate(stream, hash)),
                  seenMagnets |-> acc.seenMagnets \cup {hash}]

\* Faulty variant: the hash is compared as written, without toLowerCase.
dedupStepCaseSensitive(acc, stream) ==
    IF ~Truthy(stream.magnetLink) THEN acc
    ELSE LET link == stream.magnetLink.v
             hash == SubSeq(link, 1, RunLen(link, 1, HexChars))
         IN IF hash = <<>> \/ hash \in acc.seenMagnets THEN acc
            ELSE [unique |-> Append(acc.unique, candidate(stream, hash)),
                  seenMagnets |-> acc.seenMagnets \cup {hash}]

\* One call of the reduce callback.
dedupStep(acc, stream) ==
    IF ~Truthy(stream.magnetLink) THEN acc
    ELSE LET hash == extractHash(stream.magnetLink.v)
         IN IF hash = <<>> \/ hash \in acc.seenMagnets THEN acc
            ELSE [unique |-> Append(acc.unique, candidate(stream, hash)),
                  seenMagnets |-> acc.seenMagnets \cup {hash}]

RECURSIVE dedupFrom(_, _)
dedupFrom(acc, flat) ==
    IF flat = <<>> THEN acc ELSE dedupFrom(dedupStep(acc, Head(flat)), Tail(flat))

\* allResults.flat().reduce(..., [])
deduplicate(allResults) ==
    dedupFrom([unique |-> <<>>, seenMagnets |-> {}], Flat(allResults)).unique

(***************************************************************************)
(* Episode filter: the callback of combinedResults.filter.                 *)
(***************************************************************************)
\* Length of the first digit group of /s(\d{1,2})e(\d{1,2})/ matched at i; 0: no match.
sxxexxAt(t, i) ==
    LET n == Min(2, RunLen(t, i + 1, Digits))
        ok(k) == /\ k <= n
                 /\ i + 1 + k <= Len(t)
                 /\ t[i + 1 + k] = "e"
                 /\ RunLen(t, i + 2 + k, Digits) >= 1
    IN IF i <= Len(t) /\ t[i] = "s"
       THEN IF ok(2) THEN 2 ELSE IF ok(1) THEN 1 ELSE 0
       ELSE 0

\* Position of the match of title.match(/s(\d{1,2})e(\d{1,2})/i): the leftmost; 0: null.
RECURSIVE sxxexxFrom(_, _)
sxxexxFrom(t, i) ==
    IF i > Len(t) THEN 0
    ELSE IF sxxexxAt(t, i) > 0 THEN i
    ELSE sxxexxFrom(t, i + 1)

\* The two captured groups of the match at position i, through parseInt.
sxxexxGroups(t, i) ==
    LET k == sxxexxAt(t, i)
        m == Min(2, RunLen(t, i + 2 + k, Digits))
    IN [season |-> parseInt(SubSeq(t, i + 1, i + k)),
        episode |-> parseInt(SubSeq(t, i + 2 + k, i + 1 + k + m))]

\* title.match(/<letter>(\d{1,2})/gi) mapped through replace and parseInt.
RECURSIVE matchAll(_, _, _)
matchAll(t, i, letter) ==
    IF i > Len(t) THEN <<>>
    ELSE IF t[i] = letter /\ RunLen(t, i + 1, Digits) >= 1
         THEN LET k == Min(2, RunLen(t, i + 1, Digits))
              IN <<parseInt(SubSeq(t, i + 1, i + k))>> \o matchAll(t, i + 1 + k, letter)
    ELSE matchAll(t, i + 1, letter)

seqIncludes(s, x) == \E i \in 1 .. Len(s) : s[i] = x

\* Faulty variant: the individual patterns without the "exactly one" conditions.
episodeMatchesAnyToken(text, seasonNum, episodeNum) ==
    LET t == toLowerCase(text)
        at == sxxexxFrom(t, 1)
    IN IF at > 0
       THEN sxxexxGroups(t, at) = [season |-> seasonNum, episode |-> episodeNum]
       ELSE /\ seqIncludes(matchAll(t, 1, "s"), seasonNum)
            /\ seqIncludes(matchAll(t, 1, "e"), episodeNum)

\* The filter callback on the text of a candidate.
episodeMatches(text, seasonNum, episodeNum) ==
    LET t == toLowerCase(text)
        at == sxxexxFrom(t, 1)
        seasons == matchAll(t, 1, "s")
        episodes == matchAll(t, 1, "e")
    IN IF at > 0
       THEN sxxexxGroups(t, at) = [season |-> seasonNum, episode |-> episodeNum]
       ELSE /\ seqIncludes(seasons, seasonNum)
            /\ seqIncludes(episodes, episodeNum)
            /\ Len(seasons) = 1
            /\ Len(episodes) = 1

\* stream.filename || stream.websiteTitle || ''
filterText(stream) ==
    IF Truthy(stream.filename) THEN stream.filename
    ELSE IF Truthy(stream.websiteTitle) THEN stream.websiteTitle
    ELSE Str(<<>>)

\* combinedResults.filter(...): toLowerCase of a value that is not a string throws
\* a TypeError, which leaves the filter.
episodeFilter(combined, season, episode) ==
    IF \E i \in 1 .. Len(combined) : filterText(combined[i]).t = "num"
    THEN [threw |-> TRUE, value |-> <<>>]
    ELSE [threw |-> FALSE,
          value |-> SelectSeq(combined,
                       LAMBDA c : episodeMatches(filterText(c).v,
                                                 parseInt(season), parseInt(episode)))]

(***************************************************************************)
(* Formatting of the route handler and its helpers.                        *)
(***************************************************************************)
getQualitySymbol(quality) ==
    LET qualityStr == toLowerCase(quality)
    IN IF \/ includes(qualityStr, <<"2", "1", "6", "0">>)
          \/ includes(qualityStr, <<"4", "k">>)
          \/ includes(qualityStr, <<"u", "h", "d">>) THEN "uhd"
       ELSE IF includes(qualityStr, <<"1", "0", "8", "0">>) THEN "fullhd"
       ELSE IF includes(qualityStr, <<"7", "2", "0">>) THEN "hd"
       ELSE IF includes(qualityStr, <<"4", "8", "0">>) THEN "sd"
       ELSE IF \/ includes(qualityStr, <<"c", "a", "m">>)
               \/ includes(qualityStr, <<"h", "d", "t", "s">>) THEN "cam"
       ELSE "unknown"

\* util.js is not part of the sources: the features are left empty.
detectVideoFeatures(filename) == <<>>

\* The callback of streams.map in the route handler.  The name, a join of its
\* non-blank parts with ' | ', is held as the record of the parts.
formatStream(stream) ==
    LET qualityDisplay == IF stream.quality # <<>> THEN toUpperCase(stream.quality) ELSE <<>>
        qualitySymbol == getQualitySymbol(IF qualityDisplay # <<>> THEN qualityDisplay
                                          ELSE stream.filename.v)
    IN [name |-> [symbol |-> qualitySymbol, quality |-> qualityDisplay,
                  size |-> stream.size, source |-> stream.source],
        title |-> [filename |-> stream.filename, source |-> stream.source,
                   features |-> detectVideoFeatures(stream.filename)],
        url |-> stream.magnetLink,
        infoHash |-> stream.hash]

(***************************************************************************)
(* sortStreams                                                             *)
(***************************************************************************)
\* util.js parseQuality, modelled from the specification: the number of a
\* <3-4 digits>p token of the name, 0 when there is none.
parseQuality(name) ==
    LET q == name.quality
        n == RunLen(q, 1, Digits)
    IN IF n \in {3, 4} /\ Len(q) > n /\ LowerChar(q[n + 1]) = "p"
       THEN parseInt(SubSeq(q, 1, n))
       ELSE 0

\* util.js parseSize, modelled from the specification: the size of the name in
\* MB, 0 when there is none.
parseSize(name) ==
    LET sz == name.size
        n == RunLen(sz, 1, Digits)
        unit == IF Len(sz) > n THEN LowerChar(sz[n + 1]) ELSE ""
    IN IF n = 0 THEN 0
       ELSE IF unit = "g" THEN 1024 * parseInt(SubSeq(sz, 1, n))
       ELSE IF unit = "m" THEN parseInt(SubSeq(sz, 1, n))
       ELSE 0

\* idealSizeRanges[quality] || { min: 0, max: Infinity }; unbounded stands for Infinity.
idealRange(quality) ==
    CASE quality = 2160 -> [min |-> 10000, max |-> 80000, unbounded |-> FALSE]
      [] quality = 1080 -> [min |-> 2000, max |-> 16000, unbounded |-> FALSE]
      [] quality = 720 -> [min |-> 1000, max |-> 8000, unbounded |-> FALSE]
      [] quality = 480 -> [min |-> 500, max |-> 4000, unbounded |-> FALSE]
      [] OTHER -> [min |-> 0, max |-> 0, unbounded |-> TRUE]

getIdealScore(size, range) ==
    IF size >= range.min /\ (range.unbounded \/ size <= range.max) THEN 0
    ELSE IF size < range.min THEN range.min - size
    ELSE size - range.max

\* Faulty variant: the score difference taken the other way round.
compareFarthestFirst(a, b) ==
    LET qualityA == parseQuality(a.name)
        qualityB == parseQuality(b.name)
        sizeA == parseSize(a.name)
        sizeB == parseSize(b.name)
        scoreA == getIdealScore(sizeA, idealRange(qualityA))
        scoreB == getIdealScore(sizeB, idealRange(qualityA))
    IN IF qualityA # qualityB THEN qualityB - qualityA
       ELSE IF scoreA # scoreB THEN scoreB - scoreA
       ELSE sizeB - sizeA

\* The comparator given to Array.prototype.sort.
compare(a, b) ==
    LET qualityA == parseQuality(a.name)
        qualityB == parseQuality(b.name)
        sizeA == parseSize(a.name)
        sizeB == parseSize(b.name)
        scoreA == getIdealScore(sizeA, idealRange(qualityA))
        scoreB == getIdealScore(sizeB, idealRange(qualityA))
    IN IF qualityA # qualityB THEN qualityB - qualityA
       ELSE IF scoreA # scoreB THEN scoreA - scoreB
       ELSE sizeB - sizeA

\* Array.prototype.sort is a stable sort: insertion from the right.
RECURSIVE insert(_, _)
insert(sorted, x) ==
    IF sorted = <<>> THEN <<x>>
    ELSE IF compare(sorted[Len(sorted)], x) > 0
         THEN Append(insert(SubSeq(sorted, 1, Len(sorted) - 1), x), sorted[Len(sorted)])
    ELSE Append(sorted, x)

RECURSIVE sortFrom(_, _)
sortFrom(sorted, rest) ==
    IF rest = <<>> THEN sorted ELSE sortFrom(insert(sorted, Head(rest)), Tail(rest))

sortStreams(list) == sortFrom(<<>>, list)

\* .slice(0, 50)
TopN == 50

\* Faulty variant: the cap applied before the sort.
routeStreamsSliceFirst(list) ==
    LET formattedStreams == [i \in 1 .. Len(list) |-> formatStream(list[i])]
    IN sortStreams(SubSeq(formattedStreams, 1, Min(TopN, Len(formattedStreams))))

\* The streams of the response for a non-empty result of getStreams.
routeStreams(list) ==
    LET formattedStreams == [i \in 1 .. Len(list) |-> formatStream(list[i])]
        sorted == sortStreams(formattedStreams)
    IN SubSeq(sorted, 1, Min(TopN, Len(sorted)))

(***************************************************************************)
(* The rest of getStreams after await Promise.all, and the route handler.  *)
(***************************************************************************)
\* Faulty variant: the results taken in the order the tasks settled.
promiseAllByCompletion(results, settled) == [i \in 1 .. Len(settled) |-> results[settled[i]]]

\* Promise.all(fetchPromises): the results in the order of the sources.
promiseAll(results, settled) == [i \in 1 .. NumSources |-> results[i]]

\* getStreams from the deduplication to its return: the value and what the
\* catch block caught.
afterJoin(req, allResults) ==
    LET combinedResults == deduplicate(allResults)
        filtered == episodeFilter(combinedResults, req.season, req.episode)
    IN IF req.type = "series" /\ req.season # <<>> /\ req.episode # <<>>
       THEN IF filtered.threw
            THEN [unique |-> combinedResults, value |-> <<>>, caught |-> "TypeError"]
            ELSE [unique |-> combinedResults, value |-> filtered.value, caught |-> "none"]
       ELSE [unique |-> combinedResults, value |-> combinedResults, caught |-> "none"]

\* res.json(...) of the route handler for the value getStreams returned.
respond(list) ==
    IF list = <<>> THEN [status |-> "json", streams |-> <<>>]
    ELSE [status |-> "json", streams |-> routeStreams(list)]

\* The query of getStreams: the id, then season and episode for a series.
buildQuery(req) ==
    IF req.type = "series" THEN <<actualId(req.id), req.season, req.episode>>
    ELSE <<actualId(req.id)>>

(***************************************************************************)
(* Inputs.                                                                 *)
(***************************************************************************)
Raw(m, f, t, q, s) == [magnetLink |-> m, filename |-> f, title |-> t, quality |-> q, size |-> s]

Q1080 == <<"1", "0", "8", "0", "p">>
Q720 == <<"7", "2", "0", "p">>

\* Two results with the same hash in different case and different fields, a
\* result whose hash stops at a character that is not hexadecimal, results
\* without a usable magnet link, and a result whose filename is a number.
rA == Raw(Str(<<"A", "B">>), Str(<<"S", "1", "E", "1">>), NoTitle, Str(Q1080), Str(<<"3", "G", "B">>))
rB == Raw(Str(<<"a", "b">>), None,
          Title(<<"s", "1", "e", "1", ".", "w", "e", "b">>, Q720, <<"9", "0", "0", "M", "B">>),
          None, None)
rC == Raw(Str(<<"c", "1", "z">>), Str(<<"s", "1", ".", "e", "1">>), NoTitle, Str(Q720), None)
rD == Raw(None, Str(<<"s", "1", "e", "1">>), NoTitle, None, None)
rE == Raw(Str(<<"z", "a">>), Str(<<"s", "1", "e", "2">>), NoTitle, None, None)
rBad == Raw(Str(<<"d", "0">>), NotAString, NoTitle, Str(Q1080), None)

Payloads == {<<rA>>, <<rB, rA>>, <<rE, rC, rD>>, <<rBad>>}

Failure(kind) == [kind |-> kind, results |-> <<>>]

Ok(results) == [kind |-> "ok", results |-> results]

\* What a source can do with a request: never answer, fail the connection,
\* answer with an error status, answer and never finish the body, send a
\* body that is not JSON, send JSON without results, send results.
Behaviours ==
    {Failure(k) : k \in {"hang", "neterr", "http", "bodyhang", "badjson", "noresults"}}
    \cup {Ok(r) : r \in Payloads}

Req(type, id, season, episode) == [type |-> type, id |-> id, season |-> season, episode |-> episode]

Ids == {<<"t", "t", "1">>, <<"t", "t", "x">>, <<"t", "m", "d", "b", "-", "7">>, <<"x", "1">>}

Requests ==
    {Req("movie", id, <<>>, <<>>) : id \in Ids}
    \cup {Req("series", <<"t", "t", "1">>, s, e) : s \in {<<>>, <<"1">>}, e \in {<<>>, <<"1">>}}
    \cup {Req("series", <<"x", "1">>, <<>>, <<>>), Req("series", <<"1", "2">>, <<"0", "1">>, <<"2">>)}

(***************************************************************************)
(* The request being served.                                               *)
(***************************************************************************)
Idle ==
    /\ phase = "idle"
    /\ pc = [p \in Sources |-> "idle"]
    /\ timerFired = [p \in Sources |-> FALSE]
    /\ taskResult = [p \in Sources |-> <<>>]
    /\ order = <<>>
    /\ query = <<>>
    /\ unique = <<>>
    /\ streams = <<>>
    /\ caught = "none"
    /\ res = [status |-> "none", streams |-> <<>>]

Init ==
    /\ request \in Requests
    /\ responses \in [Sources -> Behaviours]
    /\ Idle
    /\ run = 1
    /\ prevTaskResult = [p \in Sources |-> <<>>]
    /\ prevStreams = <<>>
    /\ prevOrder = <<>>
    /\ title = <<>>
    /\ kept = "unset"

\* The route handler up to the await of getStreams, and getStreams up to the
\* await of Promise.all: an id that is not recognized and a series without
\* season or episode end the request here.
Start ==
    /\ phase = "idle"
    /\ IF getIdType(request.id) = "null"
       THEN /\ phase' = "done"
            /\ res' = [status |-> "json", streams |-> <<>>]
            /\ UNCHANGED <<pc, query, caught>>
       ELSE IF request.type = "series" /\ (request.season = <<>> \/ request.episode = <<>>)
       THEN /\ phase' = "done"
            /\ caught' = "Season and episode required for series"
            /\ res' = respond(<<>>)
            /\ UNCHANGED <<pc, query>>
       ELSE /\ phase' = "waiting"
            /\ query' = buildQuery(request)
            /\ pc' = [p \in Sources |-> "fetching"]
            /\ UNCHANGED <<res, caught>>
    /\ UNCHANGED <<request, responses, timerFired, taskResult, order, unique, streams,
                   run, prevTaskResult, prevStreams, prevOrder, title, kept>>

\* The task of source p returns value; when it is the last one, Promise.all
\* resolves and getStreams and the route handler run to the response.
Settle(p, value) ==
    LET results == [taskResult EXCEPT ![p] = value]
        settled == Append(order, p)
        out == afterJoin(request, promiseAll(results, settled))
    IN /\ pc' = [pc EXCEPT ![p] = "settled"]
       /\ taskResult' = results
       /\ order' = settled
       /\ IF \A q \in Sources \ {p} : pc[q] = "settled"
          THEN /\ phase' = "done"
               /\ unique' = out.unique
               /\ streams' = out.value
               /\ caught' = out.caught
               /\ res' = respond(out.value)
          ELSE UNCHANGED <<phase, unique, streams, caught, res>>

\* fetchWithSafeDNS settles before the timer: a rejection and a status that
\* is not ok end the task with [], otherwise the task awaits response.json().
FetchSettles(p) ==
    /\ phase = "waiting"
    /\ pc[p] = "fetching"
    /\ responses[p].kind # "hang"
    /\ IF responses[p].kind \in {"neterr", "http"}
       THEN Settle(p, <<>>)
       ELSE /\ pc' = [pc EXCEPT ![p] = "reading"]
            /\ UNCHANGED <<phase, taskResult, order, unique, streams, caught, res>>
    /\ UNCHANGED <<request, responses, timerFired, query, run, prevTaskResult,
                   prevStreams, prevOrder, title, kept>>

\* response.json() settles: a parse error and a body without results end the
\* task with [], otherwise with the results tagged with the source.
BodySettles(p) ==
    /\ phase = "waiting"
    /\ pc[p] = "reading"
    /\ responses[p].kind # "bodyhang"
    /\ IF responses[p].kind = "ok"
       THEN Settle(p, [i \in 1 .. Len(responses[p].results) |->
                          [magnetLink |-> responses[p].results[i].magnetLink,
                           filename |-> responses[p].results[i].filename,
                           title |-> responses[p].results[i].title,
                           quality |-> responses[p].results[i].quality,
                           size |-> responses[p].results[i].size,
                           source |-> p]])
       ELSE Settle(p, <<>>)
    /\ UNCHANGED <<request, responses, timerFired, query, run, prevTaskResult,
                   prevStreams, prevOrder, title, kept>>

\* The timer of fetchWithTimeout fires: it rejects the race, which ends the
\* task with [] if the task still awaits the race and changes nothing if the
\* race was settled already.  A timer that fires after its task has settled
\* has no effect at all and is left out.
TimerFires(p) ==
    /\ phase = "waiting"
    /\ pc[p] # "settled"
    /\ ~timerFired[p]
    /\ timerFired' = [timerFired EXCEPT ![p] = TRUE]
    /\ IF pc[p] = "fetching"
       THEN Settle(p, <<>>)
       ELSE UNCHANGED <<phase, pc, taskResult, order, unique, streams, caught, res>>
    /\ UNCHANGED <<request, responses, query, run, prevTaskResult, prevStreams,
                   prevOrder, title, kept>>

Next ==
    \/ Start
    \/ \E p \in Sources : FetchSettles(p)
    \/ \E p \in Sources : BodySettles(p)
    \/ \E p \in Sources : TimerFires(p)

Spec == Init /\ [][Next]_vars

(***************************************************************************)
(* The same request served a second time: nothing is kept between two      *)
(* requests, and the sources answer the second as they answered the first. *)
(***************************************************************************)
InitTwice ==
    /\ request \in {Req("movie", <<"t", "t", "1">>, <<>>, <<>>),
                    Req("series", <<"t", "t", "1">>, <<"1">>, <<"1">>)}
    /\ responses \in [Sources -> {Failure("hang"), Ok(<<rA>>), Ok(<<rC, rB>>)}]
    /\ Idle
    /\ run = 1
    /\ prevTaskResult = [p \in Sources |-> <<>>]
    /\ prevStreams = <<>>
    /\ prevOrder = <<>>
    /\ title = <<>>
    /\ kept = "unset"

NextRequest ==
    /\ phase = "done"
    /\ run = 1
    /\ run' = run + 1
    /\ prevTaskResult' = taskResult
    /\ prevStreams' = res.streams
    /\ prevOrder' = order
    /\ phase' = "idle"
    /\ pc' = [p \in Sources |-> "idle"]
    /\ timerFired' = [p \in Sources |-> FALSE]
    /\ taskResult' = [p \in Sources |-> <<>>]
    /\ order' = <<>>
    /\ query' = <<>>
    /\ unique' = <<>>
    /\ streams' = <<>>
    /\ caught' = "none"
    /\ res' = [status |-> "none", streams |-> <<>>]
    /\ UNCHANGED <<request, responses, title, kept>>

NextTwice == Next \/ NextRequest

SpecTwice == InitTwice /\ [][NextTwice]_vars

(***************************************************************************)
(* The episode filter callback on its own: a title made of a few parts,    *)
(* a season and an episode, and one application of the callback.           *)
(***************************************************************************)
Parts == {<<"s", "1">>, <<"S", "2">>, <<"e", "1">>, <<"E", "2">>, <<"s">>, <<"1">>, <<".">>}

Titles == {Flat(ps) : ps \in UNION {[1 .. n -> Parts] : n \in 0 .. MaxParts}}

InitEpisode ==
    /\ request \in {Req("series", <<"t", "t", "1">>, s, e) :
                       s \in {<<"1">>, <<"0", "2">>}, e \in {<<"1">>, <<"2">>}}
    /\ title \in Titles
    /\ kept = "unset"
    /\ responses = [p \in Sources |-> Failure("hang")]
    /\ Idle
    /\ run = 1
    /\ prevTaskResult = [p \in Sources |-> <<>>]
    /\ prevStreams = <<>>
    /\ prevOrder = <<>>

ApplyFilter ==
    /\ kept = "unset"
    /\ kept' = IF episodeMatches(title, parseInt(request.season), parseInt(request.episode))
               THEN "yes" ELSE "no"
    /\ UNCHANGED <<request, responses, phase, pc, timerFired, taskResult, order, query,
                   unique, streams, caught, res, run, prevTaskResult, prevStreams,
                   prevOrder, title>>

SpecEpisode == InitEpisode /\ [][ApplyFilter]_vars

(***************************************************************************)
(* The route handler after getStreams has returned: lists of a few         *)
(* candidates of every quality and size, and lists around the cap.         *)
(***************************************************************************)
MB500 == <<"5", "0", "0", "M", "B">>
GB2 == <<"2", "G", "B">>
GB3 == <<"3", "G", "B">>
GB20 == <<"2", "0", "G", "B">>

Qualities == <<Q1080, Q720, <<>>>>

Sizes == <<<<>>, MB500, GB2, GB3, GB20>>

\* Number of patterns the long lists are generated from.
Patterns == 6

\* The decimal text of a number below 100.
DigitChar(d) == CHOOSE c \in Digits : DigitVal(c) = d

Decimal(n) == IF n < 10 THEN <<DigitChar(n)>> ELSE <<DigitChar(n \div 10), DigitChar(n % 10)>>

Cand(i, q, sz) ==
    [hash |-> Decimal(i), magnetLink |-> Decimal(i),
     filename |-> Str(<<"s", "1", "e", "1">>), websiteTitle |-> Str(<<"s", "1", "e", "1">>),
     quality |-> q, size |-> sz, source |-> 1]

ShortLists ==
    {[i \in 1 .. Len(f) |-> Cand(i, Qualities[f[i][1]], Sizes[f[i][2]])] :
        f \in UNION {[1 .. n -> (1 .. 3) \X (1 .. 5)] : n \in 0 .. MaxRank}}

LongLists ==
    {[i \in 1 .. n |-> Cand(i, Qualities[((i * k) % 3) + 1], Sizes[((i + k) % 5) + 1])] :
        n \in (TopN - 1) .. (TopN + MaxOver), k \in 1 .. Patterns}

InitRoute ==
    /\ streams \in ShortLists \cup LongLists
    /\ phase = "route"
    /\ request = Req("movie", <<"t", "t", "1">>, <<>>, <<>>)
    /\ responses = [p \in Sources |-> Failure("hang")]
    /\ pc = [p \in Sources |-> "settled"]
    /\ timerFired = [p \in Sources |-> FALSE]
    /\ taskResult = [p \in Sources |-> <<>>]
    /\ order = <<>>
    /\ query = <<>>
    /\ unique = <<>>
    /\ caught = "none"
    /\ res = [status |-> "none", streams |-> <<>>]
    /\ run = 1
    /\ prevTaskResult = [p \in Sources |-> <<>>]
    /\ prevStreams = <<>>
    /\ prevOrder = <<>>
    /\ title = <<>>
    /\ kept = "unset"

\* The route handler from the return of getStreams to res.json.
RouteResponds ==
    /\ phase = "route"
    /\ phase' = "done"
    /\ res' = respond(streams)
    /\ UNCHANGED <<request, responses, pc, timerFired, taskResult, order, query, unique,
                   streams, caught, run, prevTaskResult, prevStreams, prevOrder, title, kept>>

SpecRoute == InitRoute /\ [][RouteResponds]_vars

(***************************************************************************)
(* Properties of the pipeline.                                             *)
(***************************************************************************)
\* Every task settled and the response was sent.
Joined == phase = "done" /\ Len(order) = NumSources

\* The raw results in the order of the sources, then of each source's array.
Concatenated == Flat([i \in 1 .. NumSources |-> taskResult[i]])

\* The hexadecimal text that follows "btih:" in a magnet link, as written.
HexRun(link) ==
    LET k == CHOOSE n \in 0 .. Len(link) :
                 /\ \A j \in 1 .. n : link[j] \in HexChars
                 /\ (n < Len(link) => link[n + 1] \notin HexChars)
    IN SubSeq(link, 1, k)

CarriesHash(x) == x.magnetLink.t = "str" /\ HexRun(x.magnetLink.v) # <<>>

SameHash(a, b) == toLowerCase(a) = toLowerCase(b)

\* The source sent a payload that is not of the expected shape.
Malformed(p) ==
    /\ responses[p].kind = "ok"
    /\ \E i \in 1 .. Len(responses[p].results) : responses[p].results[i].filename.t = "num"

\* C1: whatever sources fail (exception, timeout, error status, malformed
\* payload), the request is answered once every source has answered or run
\* into its timeout, and the response holds what the remaining sources yield:
\* every stream the pipeline gives for the results of the sources that did not
\* fail, a failed source counted as no results, is in the response.
C1_FailingProviderNeverAborts ==
    /\ (\A p \in Sources : pc[p] = "settled" \/ timerFired[p]) => Joined
    /\ Joined =>
           LET remaining == [i \in 1 .. NumSources |->
                                IF Malformed(i) THEN <<>> ELSE taskResult[i]]
               expected == respond(afterJoin(request, remaining).value).streams
           IN \A i \in 1 .. Len(expected) :
                  \E j \in 1 .. Len(res.streams) :
                      res.streams[j].infoHash = expected[i].infoHash

\* The identifier has one of the forms ^tt\d+$, ^tmdb-\d+$, ^\d+$.
AllDigits(s) == Len(s) >= 1 /\ \A i \in 1 .. Len(s) : s[i] \in Digits

RecognizedId(id) ==
    \/ startsWith(id, <<"t", "t">>) /\ AllDigits(SubSeq(id, 3, Len(id)))
    \/ startsWith(id, <<"t", "m", "d", "b", "-">>) /\ AllDigits(SubSeq(id, 6, Len(id)))
    \/ AllDigits(id)

\* C2: for an identifier of none of the forms ^tt\d+$, ^tmdb-\d+$, ^\d+$ the
\* response is empty, for a movie and for a series.
C2_UnrecognizedIdGivesEmpty ==
    phase = "done" /\ ~RecognizedId(request.id) => res.streams = <<>>

\* C3: a series request without season or episode ends with an error given to
\* the caller, not with a result list.
C3_MissingEpisodeFailsFast ==
    phase = "done" /\ request.type = "series"
        /\ (request.season = <<>> \/ request.episode = <<>>)
    => res.status = "error"

C5_SameResponsesSameOutput ==
    run > 1 /\ phase = "done" /\ taskResult = prevTaskResult => res.streams = prevStreams

\* Both requests got results from two sources or more, which settled in a
\* different order the second time.
C5_Witness ==
    /\ run > 1 /\ Joined
    /\ taskResult = prevTaskResult
    /\ order # prevOrder
    /\ Len(res.streams) >= 2
    /\ \E p, q \in Sources : p # q /\ taskResult[p] # <<>> /\ taskResult[q] # <<>>

\* C9: a task is settled as soon as its timer has fired, so the request is
\* answered once all timers have fired.
C9_TimerSettlesTask ==
    /\ \A p \in Sources : timerFired[p] => pc[p] = "settled"
    /\ (\A p \in Sources : timerFired[p]) => phase = "done"

\* Index of the first raw result that carries hash h.
FirstWith(h) ==
    CHOOSE k \in 1 .. Len(Concatenated) :
        /\ CarriesHash(Concatenated[k]) /\ SameHash(HexRun(Concatenated[k].magnetLink.v), h)
        /\ \A l \in 1 .. (k - 1) :
               ~(CarriesHash(Concatenated[l])
                 /\ SameHash(HexRun(Concatenated[l].magnetLink.v), h))

\* C10: the candidate kept for a hash has the filename, quality, size and
\* source of the first raw result with that hash in the concatenation (sources
\* in their order, then each source's results in theirs).
C10_FirstSeenWins ==
    Joined =>
        \A i \in 1 .. Len(unique) :
            LET first == Concatenated[FirstWith(unique[i].hash)]
                c == candidate(first, unique[i].hash)
            IN /\ unique[i].filename = c.filename
               /\ unique[i].quality = c.quality
               /\ unique[i].size = c.size
               /\ unique[i].source = first.source

\* Two sources sent the same hash with different fields.
C10_Witness ==
    /\ Joined
    /\ \E k, l \in 1 .. Len(Concatenated) :
           /\ k < l
           /\ CarriesHash(Concatenated[k]) /\ CarriesHash(Concatenated[l])
           /\ SameHash(HexRun(Concatenated[k].magnetLink.v), HexRun(Concatenated[l].magnetLink.v))
           /\ Concatenated[k].source # Concatenated[l].source
           /\ candidate(Concatenated[k], <<>>).quality # candidate(Concatenated[l], <<>>).quality
           /\ \E i \in 1 .. Len(unique) :
                  SameHash(unique[i].hash, HexRun(Concatenated[k].magnetLink.v))

(***************************************************************************)
(* Properties of the episode filter.                                       *)
(***************************************************************************)
\* A combined SxxExx token starts at position i of the lower-case text t: an
\* s, one or two digits, an e, a digit.
CombinedAt(t, i) ==
    /\ t[i] = "s"
    /\ \E k \in 1 .. 2 :
           /\ i + k + 2 <= Len(t)
           /\ \A j \in (i + 1) .. (i + k) : t[j] \in Digits
           /\ t[i + k + 1] = "e"
           /\ t[i + k + 2] \in Digits

\* The one or two digits at position i.
NumberAt(t, i) ==
    IF i + 1 <= Len(t) /\ t[i + 1] \in Digits
    THEN 10 * DigitVal(t[i]) + DigitVal(t[i + 1])
    ELSE DigitVal(t[i])

\* The two numbers of the combined token at position i.
CombinedNumbers(t, i) ==
    LET e == CHOOSE j \in (i + 2) .. (i + 3) : t[j] = "e"
    IN <<NumberAt(SubSeq(t, 1, e - 1), i + 1), NumberAt(t, e + 1)>>

CombinedTokens(t) == {i \in 1 .. Len(t) : CombinedAt(t, i)}

\* The standalone tokens of a letter: the letter followed by a digit.
Standalone(t, letter) == {i \in 1 .. (Len(t) - 1) : t[i] = letter /\ t[i + 1] \in Digits}

ExactlyOne(t, letter, n) ==
    /\ Cardinality(Standalone(t, letter)) = 1
    /\ \A i \in Standalone(t, letter) : NumberAt(t, i + 1) = n

Requested == <<parseInt(request.season), parseInt(request.episode)>>

\* C8 as claimed: a candidate is kept iff its text has a combined token with
\* the requested season and episode, or has no combined token and exactly one
\* standalone season token and one standalone episode token, both as requested.
C8_KeptIffSomeTokenMatches ==
    kept # "unset" =>
        LET t == toLowerCase(title)
        IN kept = "yes" <=>
               \/ \E i \in CombinedTokens(t) : CombinedNumbers(t, i) = Requested
               \/ /\ CombinedTokens(t) = {}
                  /\ ExactlyOne(t, "s", Requested[1])
                  /\ ExactlyOne(t, "e", Requested[2])

\* C8 amended: a candidate is kept iff the first combined token of its text
\* has the requested season and episode, or its text has no combined token and
\* exactly one standalone season token and one standalone episode token, both
\* as requested.
C8_KeptIffFirstTokenMatches ==
    kept # "unset" =>
        LET t == toLowerCase(title)
        IN kept = "yes" <=>
               \/ /\ CombinedTokens(t) # {}
                  /\ \E i \in CombinedTokens(t) :
                         /\ \A j \in CombinedTokens(t) : i <= j
                         /\ CombinedNumbers(t, i) = Requested
               \/ /\ CombinedTokens(t) = {}
                  /\ ExactlyOne(t, "s", Requested[1])
                  /\ ExactlyOne(t, "e", Requested[2])

\* A title with two different combined tokens is kept for its first one.
C8_Witness ==
    /\ kept = "yes"
    /\ \E i, j \in CombinedTokens(toLowerCase(title)) :
           CombinedNumbers(toLowerCase(title), i) # CombinedNumbers(toLowerCase(title), j)

(***************************************************************************)
(* Properties of the ranking and of the cap.                               *)
(***************************************************************************)
Tier(x) == parseQuality(x.name)

Size(x) == parseSize(x.name)

\* 0 inside the ideal range of the tier, else the distance to its nearest bound.
Score(x) ==
    LET lo == CASE Tier(x) = 2160 -> 10000 [] Tier(x) = 1080 -> 2000
                [] Tier(x) = 720 -> 1000 [] Tier(x) = 480 -> 500 [] OTHER -> 0
        hi == CASE Tier(x) = 2160 -> 80000 [] Tier(x) = 1080 -> 16000
                [] Tier(x) = 720 -> 8000 [] Tier(x) = 480 -> 4000 [] OTHER -> Size(x)
    IN IF Size(x) < lo THEN lo - Size(x)
       ELSE IF Size(x) > hi THEN Size(x) - hi
       ELSE 0

\* a ranks strictly above b.
Above(a, b) ==
    \/ Tier(a) > Tier(b)
    \/ Tier(a) = Tier(b) /\ Score(a) < Score(b)
    \/ Tier(a) = Tier(b) /\ Score(a) = Score(b) /\ Size(a) > Size(b)

\* C6: of two streams of the response, the one placed first has the higher
\* tier, or the same tier and the lower score, or the same tier and score and
\* a size that is not smaller.
C6_RankOrder ==
    phase = "done" =>
        \A i, j \in 1 .. Len(res.streams) :
            i < j =>
                \/ Tier(res.streams[i]) > Tier(res.streams[j])
                \/ /\ Tier(res.streams[i]) = Tier(res.streams[j])
                   /\ Score(res.streams[i]) < Score(res.streams[j])
                \/ /\ Tier(res.streams[i]) = Tier(res.streams[j])
                   /\ Score(res.streams[i]) = Score(res.streams[j])
                   /\ Size(res.streams[i]) >= Size(res.streams[j])

\* The response has streams of one tier that differ in score, and streams of
\* one tier and score that differ in size.
C6_Witness ==
    /\ phase = "done"
    /\ \E i, j \in 1 .. Len(res.streams) :
           /\ Tier(res.streams[i]) = Tier(res.streams[j])
           /\ Score(res.streams[i]) < Score(res.streams[j])
    /\ \E i, j \in 1 .. Len(res.streams) :
           /\ Tier(res.streams[i]) = Tier(res.streams[j])
           /\ Score(res.streams[i]) = Score(res.streams[j])
           /\ Size(res.streams[i]) > Size(res.streams[j])

====
